---- MODULE Spec2Model ----
(***************************************************************************)
(* State-machine model of the plugin-host bridges of the workbench:        *)
(*   - TextContentResourceResolver / TextContentResource                   *)
(*   - WorkspaceMainImpl (workspace roots, text search)                    *)
(*   - NotebookDocumentsMainImpl (notebook change-event forwarding)        *)
(* Each bridge has a specification of its own (SpecResolver, SpecRoots,    *)
(* SpecSearch, SpecNotebook); the variables of the other bridges stay      *)
(* unchanged in it.                                                        *)
(***************************************************************************)
EXTENDS Integers, Sequences, FiniteSets, TLC

VARIABLES
    \* TextContentResourceResolver
    providers,      \* Map<string, TextContentResourceProvider>: scheme -> proxy captured by the provider
    resources,      \* Map<string, TextContentResource>: uri string -> object id (0: no entry)
    objs,           \* every TextContentResource constructed so far: [uri, cache]
    fetches,        \* $provideTextDocumentContent calls in flight: the objects whose read awaits one
    registered,     \* history: scheme -> proxy of the registration in force (by the calls made)
    unread,         \* history: object id -> content of a setContent not read since
    lastOp,         \* history: the last resolver / resource operation and what it returned
    \* WorkspaceMainImpl: workspace roots
    roots,          \* private roots: string[] ([defined |-> FALSE] before the first assignment)
    wsRoots,        \* workspaceService.tryGetRoots(), as uri strings
    constructed,    \* the @postConstruct init() has run
    foldersChanged, \* $onWorkspaceFoldersChanged calls made, in order
    storageFetches, \* getAllStorageValues round trips in flight: the roots each was asked for
    workspaceData,  \* $updatePluginsWorkspaceData calls made: the roots each payload was fetched for
    changes,        \* history: calls of processWorkspaceFoldersChanged so far
    lastProcess,    \* history: argument and outcome of the last processWorkspaceFoldersChanged
    \* WorkspaceMainImpl.$findTextInFiles: one request
    searchPhase,    \* "idle", "streaming", "done", or "hung" (the callback never returns)
    options,        \* options.maxResults: [defined, value]
    maxHits,        \* const maxHits
    canceledRequest,\* let canceledRequest
    matches,        \* let matches
    workspaceSearch,\* Set<number> of search ids seen
    tokenCancelled, \* token.isCancellationRequested
    tokenListeners, \* listeners this request registered with token.onCancellationRequested
    cancelCalls,    \* searchInWorkspaceService.cancel(searchId) calls made
    searchLog,      \* $onTextSearchResult calls made, in order: [done, n] (n: result.matches.length)
    resolved,       \* the returned promise: "pending", or limitHit as "true" / "false"
    delivered,      \* history: onResult callbacks the search service made
    doneSignals,    \* history: onDone callbacks the search service made
    truncated,      \* history: some batch lost matches in the truncation loop
    \* NotebookDocumentsMainImpl
    documentEventListenersMapping,  \* Map<string, DisposableCollection>: uri string -> "none" (no entry),
                    \* or the state of the collection stored: "live" | "disposed"
    nbListeners,    \* per notebook: live onDidChangeContent listeners installed by the bridge
    pendingEvents,  \* the change events the notebook model has collected for its next emission
    lastNotebook,   \* the notebook whose batch is being collected or was emitted last
    lastEvents,     \* history: the batch of the last onDidChangeContent emission
    lastMetadata,   \* history: notebook.metadata at that emission
    modelChanged,   \* $acceptModelChanged calls made for that emission, in order
    disposables,    \* the collection holding the subscriptions of init(): "live" | "disposed"
    lastNb,         \* history: the last notification or relayed event of the notebook bridge
    saves,          \* $trySaveNotebook calls: [uri, phase, ref] of each, in call order
    \* WorkspaceMainImpl: canonical-URI providers
    canonicalUriProviders,  \* Map<string, Disposable>: scheme -> registration (0: no entry)
    canonicalService,       \* canonicalUriService: scheme -> its live registration (0: none)
    canonRegs,      \* every registration the service accepted: its scheme, by registration number
    canonDisposals, \* history: registration number -> dispose() calls on its disposable
    canonLast,      \* history: the last canonical-URI call and how it ended
    \* NotebookCellResourceResolver
    notebookModels, \* notebookService: notebook -> [exists, cells: handle -> source ("none": no cell)]
    cellResources,  \* every NotebookCellResource constructed: [uri, notebook, handle]
    cellLast,       \* history: the last resolve / readContents and how it ended
    \* NotebookDocumentsMainImpl.$tryCreateNotebook / $tryOpenNotebook
    tryLast,        \* history: the last create / open call, what it asked the resolver and returned
    \* NotebookRenderersMainImpl
    rendererDisposed,   \* dispose() was called: the (empty) collection `disposables` is disposed
    rendererLog,    \* $postRendererMessage calls made, in order
    \* WorkspaceMainImpl: toDispose and the text document content providers
    toDispose,      \* the schemes of the unregister disposables pushed to toDispose, in order
    wsDisposed,     \* WorkspaceMainImpl.dispose() was called
    staleUnregisters,   \* history: unregisterContentProvider calls dispose() made for a scheme not registered
    \* TextContentResource: the content calls
    contentLast     \* history: the last call on a resource or its uri, and the content it found unread

resolverVars == <<providers, resources, objs, fetches, registered, unread, lastOp>>

rootsVars == <<roots, wsRoots, constructed, foldersChanged, storageFetches,
               workspaceData, changes, lastProcess>>

searchVars == <<searchPhase, options, maxHits, canceledRequest, matches,
                workspaceSearch, tokenCancelled, tokenListeners, cancelCalls,
                searchLog, resolved, delivered, doneSignals, truncated>>

notebookVars == <<documentEventListenersMapping, nbListeners, pendingEvents,
                  lastNotebook, lastEvents, lastMetadata, modelChanged,
                  disposables, lastNb, saves>>

canonVars == <<canonicalUriProviders, canonicalService, canonRegs, canonDisposals,
               canonLast>>

cellVars == <<notebookModels, cellResources, cellLast>>

tryVars == <<tryLast>>

rendererVars == <<rendererDisposed, rendererLog>>

disposeVars == <<toDispose, wsDisposed, staleUnregisters>>

contentVars == <<contentLast>>

restVars == <<tryVars, rendererVars, disposeVars, contentVars>>

exceptResolver == <<rootsVars, searchVars, notebookVars, canonVars, cellVars,
                  restVars>>
exceptRoots == <<resolverVars, searchVars, notebookVars, canonVars, cellVars,
                  restVars>>
exceptSearch == <<resolverVars, rootsVars, notebookVars, canonVars, cellVars,
                  restVars>>
exceptNotebook == <<resolverVars, rootsVars, searchVars, canonVars, cellVars,
                  restVars>>
exceptCanon == <<resolverVars, rootsVars, searchVars, notebookVars, cellVars,
                  restVars>>
exceptTry == <<resolverVars, rootsVars, searchVars, notebookVars, canonVars,
              cellVars, rendererVars, disposeVars, contentVars>>
exceptRenderer == <<resolverVars, rootsVars, searchVars, notebookVars, canonVars,
                   cellVars, tryVars, disposeVars, contentVars>>
exceptProviders == <<rootsVars, searchVars, notebookVars, canonVars, cellVars,
                    tryVars, rendererVars, contentVars>>
exceptContent == <<rootsVars, searchVars, notebookVars, canonVars, cellVars,
                  tryVars, rendererVars, disposeVars>>
exceptCell == <<resolverVars, rootsVars, searchVars, notebookVars, canonVars,
                  restVars>>

vars == <<providers, resources, objs, fetches, registered, unread, lastOp,
          roots, wsRoots, constructed, foldersChanged, storageFetches,
          workspaceData, changes, lastProcess,
          searchPhase, options, maxHits, canceledRequest, matches,
          workspaceSearch, tokenCancelled, tokenListeners, cancelCalls,
          searchLog, resolved, delivered, doneSignals, truncated,
          documentEventListenersMapping, nbListeners, pendingEvents,
          lastNotebook, lastEvents, lastMetadata, modelChanged,
          disposables, lastNb, saves,
          canonicalUriProviders, canonicalService, canonRegs, canonDisposals,
          canonLast, notebookModels, cellResources, cellLast,
          tryLast, rendererDisposed, rendererLog, toDispose, wsDisposed,
          staleUnregisters, contentLast>>

----------------------------------------------------------------------------
(* Values *)

None == "none"                \* Map.get / Map.has miss
Undefined == "undefined"      \* the JavaScript value undefined

Schemes == {"s1", "s2"}
Paths == {"x"}
Uris == [scheme : Schemes, path : Paths]
Proxies == {"p1", "p2"}
Contents == {"", "a"}

MaxResources == 2    \* TextContentResource objects constructed in one run

RootNames == {"r1", "r2"}
MaxRoots == 2        \* workspace roots in one root list
MaxChanges == 3      \* root lists processed in one run

\* every list of at most n elements of S
RECURSIVE SeqsUpTo(_, _)
SeqsUpTo(S, n) ==
    IF n = 0 THEN {<<>>}
    ELSE LET shorter == SeqsUpTo(S, n - 1) IN
         shorter \cup {Append(q, x) : q \in {r \in shorter : Len(r) = n - 1}, x \in S}

RootLists == SeqsUpTo(RootNames, MaxRoots)

DefaultMaxHits == 150   \* options.maxResults ? options.maxResults : 150
SearchId == "search1"   \* the id the search service gave the search
MaxCap == 3          \* largest options.maxResults tried
MaxBatch == 3        \* matches in a small result batch
BigBatch == 80       \* matches in a large result batch
MaxBatches == 3      \* onResult callbacks in one search
BatchSizes == 0..MaxBatch \cup {BigBatch}
MaxResultsOptions ==
    {[defined |-> FALSE, value |-> 0]}
        \cup {[defined |-> TRUE, value |-> v] : v \in (-1)..MaxCap}

Notebooks == {"nb1", "nb2"}
Metadata == {"m0", "m1"}
MaxListeners == 2    \* handleNotebooksAdded notifications per notebook
MaxEvents == 2       \* events in one change batch
MaxSaves == 3        \* $trySaveNotebook calls in one run
MaxRegistrations == 4   \* canonical-URI registrations the service accepted in one run

CellScheme == "vscode-notebook-cell"     \* CellUri.scheme
CellSchemes == {CellScheme, "file"}
Handles == {0, 1}                        \* cell handles
\* the fragment of a uri, character by character: the digits of the handle,
\* then "s" (what follows the "s" is left out)
Fragments == {<<>>, <<"0">>, <<"0", "s">>, <<"1", "s">>, <<"x", "s">>}
CellUris == [scheme : CellSchemes, path : Notebooks, fragment : Fragments]
MaxCellResources == 1   \* NotebookCellResource objects constructed in one run

EditorIds == {Undefined, "e1"}
RendererIds == {"r1", "r2"}
Messages == {"m1", "m2"}
MaxMessages == 2     \* renderer messages posted in one run
MaxPushed == 3       \* disposables pushed to toDispose in one run

\* URI.toString()
UriToString(uri) == uri.scheme \o ":" \o uri.path
UriStrings == {UriToString(u) : u \in Uris}

\* JavaScript truthiness of a `string | undefined`
Truthy(v) == v # Undefined /\ v # ""

ObjIds == 1..Len(objs)

NoOp == [op |-> "none", scheme |-> None, obj |-> 0, before |-> None, result |-> None]

----------------------------------------------------------------------------
(* TextContentResourceResolver *)

ResolverInit ==
    /\ providers = [s \in Schemes |-> None]
    /\ resources = [k \in UriStrings |-> 0]
    /\ objs = <<>>
    /\ fetches = {}
    /\ registered = [s \in Schemes |-> None]
    /\ unread = <<>>
    /\ lastOp = NoOp

\* WorkspaceMainImpl before init(): `roots` is declared without an initializer
RootsInit(serviceRoots) ==
    /\ roots = [defined |-> FALSE, list |-> <<>>]
    /\ wsRoots = serviceRoots
    /\ constructed = FALSE
    /\ foldersChanged = <<>>
    /\ storageFetches = <<>>
    /\ workspaceData = <<>>
    /\ changes = 0
    /\ lastProcess = [arg |-> <<>>, notified |-> FALSE]

SearchInit ==
    /\ searchPhase = "idle"
    /\ options = [defined |-> FALSE, value |-> 0]
    /\ maxHits = 0
    /\ canceledRequest = FALSE
    /\ matches = 0
    /\ workspaceSearch = {}
    /\ tokenCancelled = FALSE
    /\ tokenListeners = 0
    /\ cancelCalls = 0
    /\ searchLog = <<>>
    /\ resolved = "pending"
    /\ delivered = 0
    /\ doneSignals = 0
    /\ truncated = FALSE

NotebookInit ==
    /\ documentEventListenersMapping = [k \in Notebooks |-> "none"]
    /\ nbListeners = [n \in Notebooks |-> 0]
    /\ pendingEvents = <<>>
    /\ lastNotebook = "nb1"
    /\ lastEvents = <<>>
    /\ lastMetadata = "m0"
    /\ modelChanged = <<>>
    /\ disposables = "live"
    /\ lastNb = [op |-> "none", notebook |-> None, forwarded |-> FALSE]
    /\ saves = <<>>

\* the uri field of a history record of a call that has no uri
NoUri == [scheme |-> "file", path |-> "nb1", fragment |-> <<>>]

CanonInit ==
    /\ canonicalUriProviders = [s \in Schemes |-> 0]
    /\ canonicalService = [s \in Schemes |-> 0]
    /\ canonRegs = <<>>
    /\ canonDisposals = <<>>
    /\ canonLast = [op |-> "none", scheme |-> None, before |-> 0, result |-> None]

CellInit ==
    /\ notebookModels = [n \in Notebooks |->
                            [exists |-> FALSE, cells |-> [h \in Handles |-> None]]]
    /\ cellResources = <<>>
    /\ cellLast = [op |-> "none", uri |-> NoUri, obj |-> 0, result |-> None]

TryInit ==
    tryLast = [op |-> "none", phase |-> "returned", arg |-> None,
               resolved |-> None, dirty |-> None, returned |-> None]

RendererInit ==
    /\ rendererDisposed = FALSE
    /\ rendererLog = <<>>

DisposeInit ==
    /\ toDispose = <<>>
    /\ wsDisposed = FALSE
    /\ staleUnregisters = 0

NoContentOp == [op |-> "none", obj |-> 0, key |-> None, pending |-> None]

ContentInit == contentLast = NoContentOp

RestInit == TryInit /\ RendererInit /\ DisposeInit /\ ContentInit

Init ==
    /\ ResolverInit /\ RootsInit(<<>>) /\ SearchInit /\ NotebookInit
    /\ CanonInit /\ CellInit /\ RestInit

\* the workspace service may hold any root list when the bridge is constructed
InitRoots ==
    /\ ResolverInit /\ SearchInit /\ NotebookInit /\ CanonInit /\ CellInit
    /\ RestInit
    /\ \E serviceRoots \in RootLists : RootsInit(serviceRoots)

\* the record kept of a call: the scheme or resource it was made for, what
\* the history held for it before the call, and what the call returned or threw
Did(op, scheme, obj, before, result) ==
    [op |-> op, scheme |-> scheme, obj |-> obj, before |-> before, result |-> result]

\* registerContentProvider without the duplicate guard
RegisterContentProviderOverwrite(scheme, proxy) ==
    /\ providers' = [providers EXCEPT ![scheme] = proxy]
    /\ lastOp' = Did("register", scheme, 0, registered[scheme], "ok")
    /\ registered' = IF registered[scheme] = None
                     THEN [registered EXCEPT ![scheme] = proxy] ELSE registered
    /\ UNCHANGED <<resources, objs, fetches, unread>>

\* registerContentProvider(scheme, proxy): the provider stored for the scheme
\* is the closure that captured `proxy`
RegisterContentProvider(scheme, proxy) ==
    /\ IF providers[scheme] # None
       THEN /\ lastOp' = Did("register", scheme, 0, registered[scheme],
                             "already registered")
            /\ UNCHANGED providers
       ELSE /\ providers' = [providers EXCEPT ![scheme] = proxy]
            /\ lastOp' = Did("register", scheme, 0, registered[scheme], "ok")
    /\ registered' = IF registered[scheme] = None
                     THEN [registered EXCEPT ![scheme] = proxy] ELSE registered
    /\ UNCHANGED <<resources, objs, fetches, unread>>

\* unregisterContentProvider that ignores what Map.delete returns
UnregisterContentProviderSilent(scheme) ==
    /\ providers' = [providers EXCEPT ![scheme] = None]
    /\ lastOp' = Did("unregister", scheme, 0, registered[scheme], "ok")
    /\ registered' = [registered EXCEPT ![scheme] = None]
    /\ UNCHANGED <<resources, objs, fetches, unread>>

\* unregisterContentProvider(scheme): Map.delete, and an error when it
\* deleted nothing
UnregisterContentProvider(scheme) ==
    /\ providers' = [providers EXCEPT ![scheme] = None]
    /\ lastOp' = Did("unregister", scheme, 0, registered[scheme],
                     IF providers[scheme] # None THEN "ok" ELSE "not registered")
    /\ registered' = [registered EXCEPT ![scheme] = None]
    /\ UNCHANGED <<resources, objs, fetches, unread>>

\* provideResource of the provider registered for a scheme: the open resource
\* of the URI, or a new one. The proxy the provider captured only names the
\* remote side the resource's reads go to.
ProvideResource(uri, proxy) ==
    LET key == UriToString(uri) IN
    IF resources[key] # 0
    THEN /\ lastOp' = Did("resolve", uri.scheme, resources[key],
                          registered[uri.scheme], "ok")
         /\ UNCHANGED <<resources, objs, unread>>
    ELSE /\ Len(objs) < MaxResources
         /\ objs' = Append(objs, [uri |-> uri, cache |-> Undefined])
         /\ unread' = Append(unread, None)
         /\ resources' = [resources EXCEPT ![key] = Len(objs) + 1]
         /\ lastOp' = Did("resolve", uri.scheme, Len(objs) + 1,
                          registered[uri.scheme], "ok")

\* resolve that falls back to any registered provider
ResolveAnyProvider(uri) ==
    /\ IF \E s \in Schemes : providers[s] # None
       THEN ProvideResource(uri, providers[CHOOSE s \in Schemes : providers[s] # None])
       ELSE /\ lastOp' = Did("resolve", uri.scheme, 0, registered[uri.scheme],
                             "unable to find provider")
            /\ UNCHANGED <<resources, objs, unread>>
    /\ UNCHANGED <<providers, fetches, registered>>

\* resolve(uri)
Resolve(uri) ==
    /\ IF providers[uri.scheme] # None
       THEN ProvideResource(uri, providers[uri.scheme])
       ELSE /\ lastOp' = Did("resolve", uri.scheme, 0, registered[uri.scheme],
                             "unable to find provider")
            /\ UNCHANGED <<resources, objs, unread>>
    /\ UNCHANGED <<providers, fetches, registered>>

----------------------------------------------------------------------------
(* TextContentResource *)

\* readContents up to its return or its await: the cached content, consumed,
\* or a remote fetch (one suspended read is followed at a time)
ReadContents(o) ==
    /\ IF Truthy(objs[o].cache)
       THEN /\ objs' = [objs EXCEPT ![o].cache = Undefined]
            /\ lastOp' = Did("read", None, o, unread[o], objs[o].cache)
            /\ UNCHANGED fetches
       ELSE /\ o \notin fetches
            /\ fetches = {}
            /\ fetches' = fetches \cup {o}
            /\ lastOp' = Did("read", None, o, unread[o], "remote")
            /\ UNCHANGED objs
    /\ unread' = [unread EXCEPT ![o] = None]
    /\ UNCHANGED <<providers, resources, registered>>

\* the continuation of readContents: $provideTextDocumentContent answered
\* `content`; the read returns content ?? ''
ProvideTextDocumentContentDone(o, content) ==
    /\ o \in fetches
    /\ fetches' = fetches \ {o}
    /\ lastOp' = Did("fetched", None, 0, None,
                     IF content = Undefined THEN "" ELSE content)
    /\ UNCHANGED <<providers, resources, objs, registered, unread>>

\* setContent(content): the cache is set and onDidChangeContents fires
SetContent(o, content) ==
    /\ objs' = [objs EXCEPT ![o].cache = content]
    /\ unread' = [unread EXCEPT ![o] = content]
    /\ lastOp' = Did("setContent", None, 0, None, "fired")

\* onContentChange that drops the content of a resource whose scheme is no
\* longer registered
OnContentChangeIfRegistered(key, content) ==
    /\ IF resources[key] # 0 /\ providers[objs[resources[key]].uri.scheme] # None
       THEN SetContent(resources[key], content)
       ELSE /\ lastOp' = Did("setContent", None, 0, None, "dropped")
            /\ UNCHANGED <<objs, unread>>
    /\ UNCHANGED <<providers, resources, fetches, registered>>

\* TextContentResourceResolver.onContentChange(uri, content)
OnContentChange(key, content) ==
    /\ IF resources[key] # 0
       THEN SetContent(resources[key], content)
       ELSE /\ lastOp' = Did("setContent", None, 0, None, "dropped")
            /\ UNCHANGED <<objs, unread>>
    /\ UNCHANGED <<providers, resources, fetches, registered>>

\* TextContentResource.dispose: the disposable handed to the constructor
\* deletes the entry of the resource's uri string
Dispose(o) ==
    /\ resources' = [resources EXCEPT ![UriToString(objs[o].uri)] = 0]
    /\ lastOp' = Did("dispose", None, 0, None, "ok")
    /\ UNCHANGED <<providers, objs, fetches, registered, unread>>

NextResolver ==
    \/ \E s \in Schemes, p \in Proxies :
            RegisterContentProvider(s, p) /\ UNCHANGED exceptResolver
    \/ \E s \in Schemes : UnregisterContentProvider(s) /\ UNCHANGED exceptResolver
    \/ \E u \in Uris : Resolve(u) /\ UNCHANGED exceptResolver
    \/ \E o \in ObjIds : ReadContents(o) /\ UNCHANGED exceptResolver
    \/ \E o \in ObjIds, c \in Contents \cup {Undefined} :
            ProvideTextDocumentContentDone(o, c) /\ UNCHANGED exceptResolver
    \/ \E k \in UriStrings, c \in Contents :
            OnContentChange(k, c) /\ UNCHANGED exceptResolver
    \/ \E o \in ObjIds : Dispose(o) /\ UNCHANGED exceptResolver

SpecResolver == Init /\ [][NextResolver]_vars

----------------------------------------------------------------------------
(* WorkspaceMainImpl: workspace roots *)

\* isAnyRootChanged that compares the two lists as sets of roots
IsAnyRootChangedUnordered(stored, new) ==
    \/ ~stored.defined
    \/ Len(stored.list) # Len(new)
    \/ {stored.list[i] : i \in 1..Len(stored.list)} # {new[i] : i \in 1..Len(new)}

\* isAnyRootChanged: !this.roots || lengths differ || some root differs from
\* the new root at its index
IsAnyRootChanged(stored, new) ==
    IF ~stored.defined \/ Len(stored.list) # Len(new)
    THEN TRUE
    ELSE \E index \in 1..Len(stored.list) : stored.list[index] # new[index]

\* processWorkspaceFoldersChanged(new), up to its await: the storage request
\* is made for the roots the workspace service reports at that moment
ProcessWorkspaceFoldersChanged(new, serviceRoots) ==
    /\ changes < MaxChanges
    /\ changes' = changes + 1
    /\ IF IsAnyRootChanged(roots, new)
       THEN /\ roots' = [defined |-> TRUE, list |-> new]
            /\ foldersChanged' = Append(foldersChanged, new)
            /\ storageFetches' = Append(storageFetches, serviceRoots)
            /\ lastProcess' = [arg |-> new, notified |-> TRUE]
       ELSE /\ lastProcess' = [arg |-> new, notified |-> FALSE]
            /\ UNCHANGED <<roots, foldersChanged, storageFetches>>
    /\ UNCHANGED workspaceData

\* init(): the roots known at construction are processed
PostConstruct ==
    /\ ~constructed
    /\ constructed' = TRUE
    /\ ProcessWorkspaceFoldersChanged(wsRoots, wsRoots)
    /\ UNCHANGED wsRoots

\* the listener of workspaceService.onWorkspaceChanged: the service holds the
\* root list it reports
OnWorkspaceChanged(new) ==
    /\ constructed
    /\ wsRoots' = new
    /\ ProcessWorkspaceFoldersChanged(new, new)
    /\ UNCHANGED constructed

\* the continuation of processWorkspaceFoldersChanged: a getAllStorageValues
\* round trip completes and its data goes to $updatePluginsWorkspaceData
GetAllStorageValuesDone(i) ==
    /\ workspaceData' = Append(workspaceData, storageFetches[i])
    /\ storageFetches' = SubSeq(storageFetches, 1, i - 1)
                            \o SubSeq(storageFetches, i + 1, Len(storageFetches))
    /\ UNCHANGED <<roots, wsRoots, constructed, foldersChanged, changes, lastProcess>>

NextRoots ==
    \/ PostConstruct /\ UNCHANGED exceptRoots
    \/ \E new \in RootLists : OnWorkspaceChanged(new) /\ UNCHANGED exceptRoots
    \/ \E i \in 1..Len(storageFetches) :
            GetAllStorageValuesDone(i) /\ UNCHANGED exceptRoots

SpecRoots == InitRoots /\ [][NextRoots]_vars

\* C7: processWorkspaceFoldersChanged(new) sends $onWorkspaceFoldersChanged
\* and replaces the stored root list if and only if no list was stored or new
\* differs from the stored list in length or at some position; otherwise it
\* sends nothing and changes no state.
C7_NotifiesIffRootsDiffer ==
    [][changes' = changes + 1 =>
        LET new == lastProcess'.arg
            differs == \/ ~roots.defined
                       \/ Len(roots.list) # Len(new)
                       \/ \E i \in 1..Len(new) : roots.list[i] # new[i]
        IN  /\ lastProcess'.notified <=> differs
            /\ differs => /\ roots' = [defined |-> TRUE, list |-> new]
                          /\ foldersChanged' = Append(foldersChanged, new)
            /\ ~differs => UNCHANGED <<roots, foldersChanged, storageFetches,
                                       workspaceData>>]_vars

\* an update with a two-root list identical to the stored one was suppressed,
\* after an update that reordered the same two roots was notified
C7_Witness ==
    /\ changes >= 3
    /\ ~lastProcess.notified
    /\ Len(lastProcess.arg) = 2
    /\ roots.list = lastProcess.arg
    /\ Len(foldersChanged) = 2
    /\ foldersChanged[1] = <<foldersChanged[2][2], foldersChanged[2][1]>>
    /\ foldersChanged[1] # foldersChanged[2]

----------------------------------------------------------------------------
(* WorkspaceMainImpl.$findTextInFiles *)

\* const maxHits = options.maxResults ? options.maxResults : 150
\* (undefined and 0 are falsy)
MaxHitsOf(opts) ==
    IF opts.defined /\ opts.value # 0 THEN opts.value ELSE DefaultMaxHits

\* the outcome of a loop that does not end
Diverges == -1

\* the truncation loop with the matches forwarded so far left out of the test
SpliceLoopPerBatch(length, forwarded, cap) ==
    IF length > cap THEN (IF cap < 0 THEN Diverges ELSE cap) ELSE length

\* while ((matches + result.matches.length) > maxHits)
\*     result.matches.splice(result.matches.length - 1, 1);
\* the length of result.matches after the loop; splice removes nothing from
\* an empty array, so the loop does not end once the array is empty
RECURSIVE SpliceLoop(_, _, _)
SpliceLoop(length, forwarded, cap) ==
    IF forwarded + length > cap
    THEN IF length = 0 THEN Diverges ELSE SpliceLoop(length - 1, forwarded, cap)
    ELSE length

\* the limit test with a strict comparison
LimitHitStrict(cap, forwarded) == cap < forwarded

\* if (maxHits <= matches) resolve({ limitHit: true }) else resolve({ limitHit: false })
LimitHit(cap, forwarded) == cap <= forwarded

\* $findTextInFiles up to searchWithCallback: the search is issued
FindTextInFiles(opts) ==
    /\ searchPhase = "idle"
    /\ searchPhase' = "streaming"
    /\ options' = opts
    /\ maxHits' = MaxHitsOf(opts)
    /\ canceledRequest' = FALSE
    /\ matches' = 0
    /\ UNCHANGED <<workspaceSearch, tokenCancelled, tokenListeners, cancelCalls,
                   searchLog, resolved, delivered, doneSignals, truncated>>

\* the caller cancels its token: the listeners registered so far run
CancelToken ==
    /\ searchPhase # "hung"
    /\ ~tokenCancelled
    /\ tokenCancelled' = TRUE
    /\ IF tokenListeners > 0
       THEN /\ cancelCalls' = cancelCalls + tokenListeners
            /\ canceledRequest' = TRUE
       ELSE UNCHANGED <<cancelCalls, canceledRequest>>
    /\ UNCHANGED <<searchPhase, options, maxHits, matches, workspaceSearch,
                   tokenListeners, searchLog, resolved, delivered, doneSignals,
                   truncated>>

\* the callbacks the search service makes for one search: results while the
\* search is streaming (also after cancel was called), then one onDone
ServiceStreaming == searchPhase = "streaming"

\* the part of onResult after the cancellation checks
ForwardResult(length) ==
    IF length # 0
    THEN LET kept == SpliceLoop(length, matches, maxHits) IN
         IF kept = Diverges
         THEN /\ searchPhase' = "hung"
              /\ UNCHANGED <<searchLog, matches, cancelCalls, truncated>>
         ELSE /\ searchLog' = Append(searchLog, [done |-> FALSE, n |-> kept])
              /\ matches' = matches + kept
              /\ cancelCalls' = IF maxHits <= matches + kept
                                THEN cancelCalls + 1 ELSE cancelCalls
              /\ truncated' = (truncated \/ kept < length)
              /\ UNCHANGED searchPhase
    ELSE UNCHANGED <<searchPhase, searchLog, matches, cancelCalls, truncated>>

\* onResult(searchId, result), result.matches.length = length (0 also stands
\* for a result without matches)
OnResult(length) ==
    /\ ServiceStreaming
    /\ delivered < MaxBatches
    /\ delivered' = delivered + 1
    /\ IF canceledRequest
       THEN UNCHANGED <<searchPhase, canceledRequest, matches, workspaceSearch,
                        tokenListeners, cancelCalls, searchLog, truncated>>
       ELSE /\ workspaceSearch' = workspaceSearch \cup {SearchId}
            /\ tokenListeners' = IF SearchId \in workspaceSearch
                                 THEN tokenListeners ELSE tokenListeners + 1
            /\ IF tokenCancelled
               THEN /\ cancelCalls' = cancelCalls + 1
                    /\ canceledRequest' = TRUE
                    /\ UNCHANGED <<searchPhase, matches, searchLog, truncated>>
               ELSE /\ ForwardResult(length)
                    /\ UNCHANGED canceledRequest
    /\ UNCHANGED <<options, maxHits, tokenCancelled, resolved, doneSignals>>

\* onDone that signals completion only for a search it has seen a result of
OnDoneIfSeen ==
    /\ ServiceStreaming
    /\ doneSignals' = doneSignals + 1
    /\ searchPhase' = "done"
    /\ IF SearchId \in workspaceSearch
       THEN /\ cancelCalls' = cancelCalls + 1
            /\ workspaceSearch' = workspaceSearch \ {SearchId}
            /\ searchLog' = Append(searchLog, [done |-> TRUE, n |-> 0])
            /\ resolved' = IF LimitHit(maxHits, matches) THEN "true" ELSE "false"
       ELSE UNCHANGED <<cancelCalls, workspaceSearch, searchLog, resolved>>
    /\ UNCHANGED <<options, maxHits, canceledRequest, matches, tokenCancelled,
                   tokenListeners, delivered, truncated>>

\* onDone(searchId, _error)
OnDone ==
    /\ ServiceStreaming
    /\ doneSignals' = doneSignals + 1
    /\ searchPhase' = "done"
    /\ IF SearchId \in workspaceSearch
       THEN /\ cancelCalls' = cancelCalls + 1
            /\ workspaceSearch' = workspaceSearch \ {SearchId}
       ELSE UNCHANGED <<cancelCalls, workspaceSearch>>
    /\ searchLog' = Append(searchLog, [done |-> TRUE, n |-> 0])
    /\ resolved' = IF LimitHit(maxHits, matches) THEN "true" ELSE "false"
    /\ UNCHANGED <<options, maxHits, canceledRequest, matches, tokenCancelled,
                   tokenListeners, delivered, truncated>>

NextSearch ==
    \/ \E opts \in MaxResultsOptions : FindTextInFiles(opts) /\ UNCHANGED exceptSearch
    \/ CancelToken /\ UNCHANGED exceptSearch
    \/ \E length \in BatchSizes : OnResult(length) /\ UNCHANGED exceptSearch
    \/ OnDone /\ UNCHANGED exceptSearch

SpecSearch == Init /\ [][NextSearch]_vars

\* the matches forwarded through $onTextSearchResult(requestId, false, result)
RECURSIVE ForwardedMatches(_)
ForwardedMatches(log) ==
    IF log = <<>> THEN 0
    ELSE (IF Head(log).done THEN 0 ELSE Head(log).n) + ForwardedMatches(Tail(log))

\* the cap N of a request: options.maxResults, or 150 when absent or 0
Cap == IF options.defined /\ options.value # 0 THEN options.value ELSE 150

\* C5 as stated: the matches forwarded for a request never exceed its cap N.
C5_ForwardedNeverExceedsCap ==
    searchPhase # "idle" => ForwardedMatches(searchLog) <= Cap

\* C5, amended: the matches forwarded never exceed the cap N when N >= 0, and
\* none is forwarded when N is negative.
C5_ForwardedNeverExceedsCapOrZero ==
    searchPhase # "idle" =>
        ForwardedMatches(searchLog) <= (IF Cap < 0 THEN 0 ELSE Cap)

\* the default cap of 150 was reached by a truncated batch after an earlier batch
C5_Witness ==
    /\ ~options.defined
    /\ truncated
    /\ Len(searchLog) >= 2
    /\ ForwardedMatches(searchLog) = 150

\* C6: the promise resolves with limitHit = true exactly when the matches
\* forwarded are at least the cap when onDone fires, in particular whenever a
\* batch was truncated.
C6_LimitHitIffCapReached ==
    /\ resolved # "pending" =>
            /\ resolved = "true" <=> ForwardedMatches(searchLog) >= Cap
            /\ truncated => resolved = "true"
    /\ doneSignals > 0 => resolved # "pending"

C6_Witness ==
    /\ resolved = "true"
    /\ truncated
    /\ ForwardedMatches(searchLog) = Cap
    /\ Len(searchLog) >= 3

\* C10: once the service signals onDone, exactly one completion signal
\* $onTextSearchResult(requestId, true) has been sent, after every forwarded
\* result, and the promise is resolved; none is sent before onDone.
C10_OneCompletionAtDone ==
    LET completions == {i \in 1..Len(searchLog) : searchLog[i].done} IN
    /\ Cardinality(completions) = doneSignals
    /\ doneSignals = 1 => /\ completions = {Len(searchLog)}
                          /\ resolved # "pending"
    /\ doneSignals = 0 => resolved = "pending"

\* onDone for a request that was cancelled by its token after a forwarded result
C10_Witness ==
    /\ doneSignals = 1
    /\ canceledRequest
    /\ Len(searchLog) >= 2
    /\ searchLog[Len(searchLog)].done

\* the cap was reached by a forwarded result: line 341 called cancel
CapReached == matches > 0 /\ maxHits <= matches

\* C11: a result callback that arrives after the caller's token was cancelled
\* or after the hit cap was reached makes no $onTextSearchResult call.
C11_LateResultNotForwarded ==
    [][(delivered' = delivered + 1 /\ (tokenCancelled \/ CapReached))
            => searchLog' = searchLog]_vars

\* C11 for the token alone: a result callback that arrives after the caller's
\* token was cancelled makes no $onTextSearchResult call.
C11_ResultAfterTokenCancelNotForwarded ==
    [][(delivered' = delivered + 1 /\ tokenCancelled)
            => searchLog' = searchLog]_vars

\* C12: a token cancelled between the issue of the search and its onDone has
\* led to a searchInWorkspaceService.cancel call by the time onDone returns.
C12_TokenCancelReachesService ==
    [][(doneSignals' = doneSignals + 1 /\ tokenCancelled) => cancelCalls' > 0]_vars

\* C12 for the requests that saw a result callback, and for the cap: cancel
\* was called once the token is cancelled and a result callback was let in,
\* and once the cap is reached.
C12_CancelCalledOnceResultSeen ==
    /\ (tokenCancelled /\ tokenListeners > 0) => cancelCalls > 0
    /\ CapReached => cancelCalls > 0

----------------------------------------------------------------------------
(* NotebookDocumentsMainImpl *)

\* NotebookCellsChangeType: the kinds the listener translates
ModelChange == "ModelChange"
Move == "Move"
Output == "Output"
OutputItem == "OutputItem"
ChangeCellLanguage == "ChangeCellLanguage"
ChangeCellContent == "ChangeCellContent"
ChangeCellMetadata == "ChangeCellMetadata"
ChangeCellInternalMetadata == "ChangeCellInternalMetadata"
ChangeDocumentMetadata == "ChangeDocumentMetadata"

NotebookCellsChangeType ==
    {ModelChange, Move, Output, OutputItem, ChangeCellLanguage, ChangeCellContent,
     ChangeCellMetadata, ChangeCellInternalMetadata, ChangeDocumentMetadata}

\* a change event is [kind, payload]: its kind and the fields of that kind,
\* as one value (here the place the event has in its batch)

\* the switch over e.kind with the OutputItem case missing
RawEventOfNoOutputItem(e) ==
    IF e.kind = OutputItem THEN <<>>
    ELSE <<[kind |-> e.kind, wire |-> e.payload]>>

\* the switch over e.kind: what one event pushes to eventDto.rawEvents (the
\* kind and the fields of that kind, mapped to their DTOs; the cell-level
\* kinds are pushed as they are); a kind without a case pushes nothing
RawEventOf(e) ==
    CASE e.kind = ModelChange -> <<[kind |-> e.kind, wire |-> e.payload]>>
      [] e.kind = Move -> <<[kind |-> e.kind, wire |-> e.payload]>>
      [] e.kind = Output -> <<[kind |-> e.kind, wire |-> e.payload]>>
      [] e.kind = OutputItem -> <<[kind |-> e.kind, wire |-> e.payload]>>
      [] e.kind \in {ChangeCellLanguage, ChangeCellContent, ChangeCellMetadata,
                     ChangeCellInternalMetadata} -> <<[kind |-> e.kind, wire |-> e.payload]>>
      [] e.kind = ChangeDocumentMetadata -> <<[kind |-> e.kind, wire |-> e.payload]>>
      [] OTHER -> <<>>

\* for (const e of events) { switch ... }
RECURSIVE RawEvents(_)
RawEvents(events) ==
    IF events = <<>> THEN <<>>
    ELSE RawEventOf(Head(events)) \o RawEvents(Tail(events))

\* the metadata test looking at the first event of the batch only
HasDocumentMetadataChangeEventFirst(events) ==
    events # <<>> /\ events[1].kind = ChangeDocumentMetadata

\* events.find(e => e.kind === NotebookCellsChangeType.ChangeDocumentMetadata),
\* as the condition of `? notebook.metadata : undefined`
HasDocumentMetadataChangeEvent(events) ==
    \E i \in 1..Len(events) : events[i].kind = ChangeDocumentMetadata

\* the $acceptModelChanged call one listener makes for a batch
AcceptModelChangedCall(notebook, events, dirty, metadata) ==
    [uri |-> notebook,
     eventDto |-> [versionId |-> 1, rawEvents |-> RawEvents(events)],
     isDirty |-> dirty,
     metadata |-> IF HasDocumentMetadataChangeEvent(events) THEN metadata ELSE Undefined]

\* handleNotebooksAdded([notebook]): a listener is subscribed and its
\* collection stored under the notebook's uri string
HandleNotebooksAdded(notebook) ==
    /\ nbListeners[notebook] < MaxListeners
    /\ nbListeners' = [nbListeners EXCEPT ![notebook] = @ + 1]
    /\ documentEventListenersMapping' =
            [documentEventListenersMapping EXCEPT ![notebook] = "live"]
    /\ lastNb' = [op |-> "added", notebook |-> notebook, forwarded |-> FALSE]
    /\ UNCHANGED <<pendingEvents, lastNotebook, lastEvents, lastMetadata,
                   modelChanged, disposables, saves>>

\* the notebook model records one more change for the batch it will emit
NotebookChange(notebook, kind) ==
    /\ pendingEvents = <<>> \/ lastNotebook = notebook
    /\ Len(pendingEvents) < MaxEvents
    /\ pendingEvents' = Append(pendingEvents,
                               [kind |-> kind, payload |-> Len(pendingEvents) + 1])
    /\ lastNotebook' = notebook
    /\ lastEvents' = <<>>
    /\ lastMetadata' = "m0"
    /\ modelChanged' = <<>>
    /\ UNCHANGED <<documentEventListenersMapping, nbListeners, disposables, lastNb, saves>>

\* a listener that forwards each batch when the next one is emitted
OnDidChangeContentDeferred(dirty, metadata) ==
    /\ pendingEvents' = <<>>
    /\ lastEvents' = pendingEvents
    /\ lastMetadata' = metadata
    /\ modelChanged' = [i \in 1..nbListeners[lastNotebook] |->
                            AcceptModelChangedCall(lastNotebook, lastEvents,
                                                   dirty, metadata)]
    /\ UNCHANGED <<documentEventListenersMapping, nbListeners, lastNotebook,
                   disposables, lastNb, saves>>

\* the notebook model emits the batch through onDidChangeContent, being dirty
\* or not and holding `metadata`: every live listener of the bridge runs
OnDidChangeContent(dirty, metadata) ==
    /\ pendingEvents' = <<>>
    /\ lastEvents' = pendingEvents
    /\ lastMetadata' = metadata
    /\ modelChanged' = [i \in 1..nbListeners[lastNotebook] |->
                            AcceptModelChangedCall(lastNotebook, pendingEvents,
                                                   dirty, metadata)]
    /\ UNCHANGED <<documentEventListenersMapping, nbListeners, lastNotebook,
                   disposables, lastNb, saves>>

NextNotebook ==
    \/ \E n \in Notebooks : HandleNotebooksAdded(n) /\ UNCHANGED exceptNotebook
    \/ \E n \in Notebooks, kind \in NotebookCellsChangeType :
            NotebookChange(n, kind) /\ UNCHANGED exceptNotebook
    \/ \E dirty \in BOOLEAN, metadata \in Metadata :
            OnDidChangeContent(dirty, metadata) /\ UNCHANGED exceptNotebook

SpecNotebook == Init /\ [][NextNotebook]_vars

----------------------------------------------------------------------------
(* NotebookDocumentsMainImpl: removal, disposal, dirty and save events *)

\* uri.toComponents(): the wire decomposition of a notebook's uri
ToComponents(notebook) == [scheme |-> "file", path |-> notebook]

\* uri.toString() where uri is a UriComponents: a plain data object, whose
\* toString is Object.prototype.toString
ComponentsToString(components) == "[object Object]"

\* handleNotebooksRemoved([components]):
\*   this.documentEventListenersMapping.get(uri.toString())?.dispose();
\*   this.documentEventListenersMapping.delete(uri.toString());
HandleNotebooksRemoved(components) ==
    LET key == ComponentsToString(components) IN
    /\ nbListeners' = IF key \in Notebooks /\ documentEventListenersMapping[key] = "live"
                      THEN [nbListeners EXCEPT ![key] = @ - 1]
                      ELSE nbListeners
    /\ documentEventListenersMapping' =
            IF key \in Notebooks
            THEN [documentEventListenersMapping EXCEPT ![key] = None]
            ELSE documentEventListenersMapping
    /\ lastNb' = [op |-> "removed", notebook |-> components.path, forwarded |-> FALSE]
    /\ UNCHANGED <<pendingEvents, lastNotebook, lastEvents, lastMetadata,
                   modelChanged, disposables, saves>>

\* dispose(): this.disposables.dispose(), then value.dispose() for every
\* value of documentEventListenersMapping; the entries stay in the map
NotebookDocumentsDispose ==
    /\ disposables' = "disposed"
    /\ nbListeners' = [n \in Notebooks |->
                            IF documentEventListenersMapping[n] = "live"
                            THEN nbListeners[n] - 1 ELSE nbListeners[n]]
    /\ documentEventListenersMapping' =
            [n \in Notebooks |->
                IF documentEventListenersMapping[n] = "live"
                THEN "disposed" ELSE documentEventListenersMapping[n]]
    /\ lastNb' = [op |-> "disposed", notebook |-> None, forwarded |-> FALSE]
    /\ UNCHANGED <<pendingEvents, lastNotebook, lastEvents, lastMetadata,
                   modelChanged, saves>>

\* notebookModelResolverService.onDidChangeDirty fires for a model: the
\* subscription of init() calls $acceptDirtyStateChanged while it is live
OnDidChangeDirty(notebook) ==
    /\ lastNb' = [op |-> "dirty", notebook |-> notebook,
                  forwarded |-> (disposables = "live")]
    /\ UNCHANGED <<documentEventListenersMapping, nbListeners, pendingEvents,
                   lastNotebook, lastEvents, lastMetadata, modelChanged,
                   disposables, saves>>

\* notebookModelResolverService.onDidSaveNotebook fires: the subscription of
\* init() calls $acceptModelSaved while it is live
OnDidSaveNotebook(notebook) ==
    /\ lastNb' = [op |-> "saved", notebook |-> notebook,
                  forwarded |-> (disposables = "live")]
    /\ UNCHANGED <<documentEventListenersMapping, nbListeners, pendingEvents,
                   lastNotebook, lastEvents, lastMetadata, modelChanged,
                   disposables, saves>>

\* the kinds of change the documents of this specification make
LifecycleKinds == {ModelChange, ChangeDocumentMetadata}

NextNotebookLifecycle ==
    \/ \E n \in Notebooks : HandleNotebooksAdded(n) /\ UNCHANGED exceptNotebook
    \/ \E n \in Notebooks :
            HandleNotebooksRemoved(ToComponents(n)) /\ UNCHANGED exceptNotebook
    \/ NotebookDocumentsDispose /\ UNCHANGED exceptNotebook
    \/ \E n \in Notebooks : OnDidChangeDirty(n) /\ UNCHANGED exceptNotebook
    \/ \E n \in Notebooks : OnDidSaveNotebook(n) /\ UNCHANGED exceptNotebook
    \/ \E n \in Notebooks, kind \in LifecycleKinds :
            NotebookChange(n, kind) /\ UNCHANGED exceptNotebook
    \/ \E dirty \in BOOLEAN, metadata \in Metadata :
            OnDidChangeContent(dirty, metadata) /\ UNCHANGED exceptNotebook

SpecNotebookLifecycle == Init /\ [][NextNotebookLifecycle]_vars

\* the notebook model emits a batch
Emission == \E dirty \in BOOLEAN, metadata \in Metadata : OnDidChangeContent(dirty, metadata)

\* C13: after handleNotebooksRemoved([components of n.uri]) the listener of n
\* is disposed, the map has no entry for n, and a later change batch of n
\* causes no $acceptModelChanged call.
C13_RemovedNotebookNotForwarded ==
    /\ [](lastNb.op = "removed" =>
            /\ documentEventListenersMapping[lastNb.notebook] = None
            /\ nbListeners[lastNb.notebook] = 0)
    /\ [][(Emission /\ lastNb.op = "removed" /\ lastNb.notebook = lastNotebook)
            => modelChanged' = <<>>]_vars

\* C14: every document has at most one live content-change listener
\* installed by the bridge, so each emitted batch results in at most one
\* $acceptModelChanged call.
C14_AtMostOneLiveListener ==
    /\ \A n \in Notebooks : nbListeners[n] <= 1
    /\ Len(modelChanged) <= 1

\* C14 for the map alone: the map refers to one listener set per document,
\* and a live set in the map means a live listener of that document.
C14_MapEntryMeansLiveListener ==
    \A n \in Notebooks : documentEventListenersMapping[n] = "live" => nbListeners[n] >= 1

\* C15: after dispose() every listener set is disposed, its entry is removed
\* from the map, and no content-change, dirty-state or save event is
\* forwarded any more.
C15_DisposeRemovesEveryListenerSet ==
    /\ [](lastNb.op = "disposed" =>
            \A n \in Notebooks :
                /\ documentEventListenersMapping[n] = None
                /\ nbListeners[n] = 0)
    /\ []((disposables = "disposed" /\ lastNb.op \in {"dirty", "saved"})
            => ~lastNb.forwarded)
    /\ [][(Emission /\ lastNb.op = "disposed") => modelChanged' = <<>>]_vars

\* C15 for what dispose() does do: no set in the map is live right after it,
\* and dirty-state and save events are not forwarded after it.
C15_DisposeStopsDirtyAndSaveRelay ==
    /\ lastNb.op = "disposed" =>
            \A n \in Notebooks : documentEventListenersMapping[n] # "live"
    /\ (disposables = "disposed" /\ lastNb.op \in {"dirty", "saved"})
            => ~lastNb.forwarded
    /\ (disposables = "live" /\ lastNb.op \in {"dirty", "saved"})
            => lastNb.forwarded

----------------------------------------------------------------------------
(* NotebookDocumentsMainImpl.$trySaveNotebook *)

SaveIds == 1..Len(saves)

\* $trySaveNotebook(uriComponents) up to its first await
TrySaveNotebook(notebook) ==
    /\ Len(saves) < MaxSaves
    /\ saves' = Append(saves, [uri |-> notebook, phase |-> "resolving", ref |-> None])

\* notebookModelResolverService.resolve(uri) answered with a reference
ResolveDone(i) ==
    /\ saves[i].phase = "resolving"
    /\ saves' = [saves EXCEPT ![i].phase = "saving", ![i].ref = "held"]

\* notebookModelResolverService.resolve(uri) rejected: the call rejects
ResolveRejected(i) ==
    /\ saves[i].phase = "resolving"
    /\ saves' = [saves EXCEPT ![i].phase = "rejected"]

\* ref.save({}) fulfilled: ref.dispose(); return true
SaveDone(i) ==
    /\ saves[i].phase = "saving"
    /\ saves' = [saves EXCEPT ![i].phase = "returned", ![i].ref = "disposed"]

\* ref.save({}) rejected: the call rejects at the await
SaveRejected(i) ==
    /\ saves[i].phase = "saving"
    /\ saves' = [saves EXCEPT ![i].phase = "rejected"]

saveFrame == <<documentEventListenersMapping, nbListeners, pendingEvents,
               lastNotebook, lastEvents, lastMetadata, modelChanged,
               disposables, lastNb>>

\* URI.fromComponents(components)
FromComponents(components) == components.path

\* $tryCreateNotebook(options) up to its await
TryCreateNotebook ==
    /\ tryLast.phase # "pending"
    /\ tryLast' = [op |-> "create", phase |-> "pending", arg |-> None,
                   resolved |-> None, dirty |-> None, returned |-> None]

\* resolveUntitledResource answered with the reference of a new model:
\* $acceptDirtyStateChanged(ref.uri.toComponents(), true), then the
\* components are returned
CreateResolved(notebook) ==
    /\ tryLast.op = "create" /\ tryLast.phase = "pending"
    /\ tryLast' = [tryLast EXCEPT !.phase = "returned", !.resolved = notebook,
                                  !.dirty = ToComponents(notebook),
                                  !.returned = ToComponents(notebook)]

\* resolveUntitledResource rejected: the call rejects
CreateRejected ==
    /\ tryLast.op = "create" /\ tryLast.phase = "pending"
    /\ tryLast' = [tryLast EXCEPT !.phase = "rejected"]

\* $tryOpenNotebook(uriComponents):
\*   const uri = URI.fromComponents(uriComponents); return uri.toComponents();
TryOpenNotebook(uriComponents) ==
    /\ tryLast.phase # "pending"
    /\ tryLast' = [op |-> "open", phase |-> "returned", arg |-> uriComponents,
                   resolved |-> None, dirty |-> None,
                   returned |-> ToComponents(FromComponents(uriComponents))]

NextNotebookSave ==
    \/ TryCreateNotebook /\ UNCHANGED exceptTry
    \/ \E n \in Notebooks : CreateResolved(n) /\ UNCHANGED exceptTry
    \/ CreateRejected /\ UNCHANGED exceptTry
    \/ \E n \in Notebooks : TryOpenNotebook(ToComponents(n)) /\ UNCHANGED exceptTry
    \/ \E n \in Notebooks : TrySaveNotebook(n) /\ UNCHANGED <<saveFrame, exceptNotebook>>
    \/ \E i \in SaveIds : ResolveDone(i) /\ UNCHANGED <<saveFrame, exceptNotebook>>
    \/ \E i \in SaveIds : ResolveRejected(i) /\ UNCHANGED <<saveFrame, exceptNotebook>>
    \/ \E i \in SaveIds : SaveDone(i) /\ UNCHANGED <<saveFrame, exceptNotebook>>
    \/ \E i \in SaveIds : SaveRejected(i) /\ UNCHANGED <<saveFrame, exceptNotebook>>

SpecNotebookSave == Init /\ [][NextNotebookSave]_vars

\* C17: every reference $trySaveNotebook obtained is disposed once the call
\* has completed, whether the save succeeded or rejected.
C17_RefDisposedOnEveryPath ==
    \A i \in SaveIds :
        (saves[i].phase \in {"returned", "rejected"} /\ saves[i].ref # None)
            => saves[i].ref = "disposed"

\* C21: create, open and save each ask the model resolver; create and open
\* return the components of the uri of the model the resolver produced, and
\* create sends $acceptDirtyStateChanged(uri, true) for it before returning.
C21_CreateOpenSaveDelegate ==
    /\ tryLast.phase = "returned" /\ tryLast.op \in {"create", "open"}
            => /\ tryLast.resolved # None
               /\ tryLast.returned = ToComponents(tryLast.resolved)
    /\ tryLast.phase = "returned" /\ tryLast.op = "create"
            => tryLast.dirty = ToComponents(tryLast.resolved)
    /\ \A i \in SaveIds : saves[i].phase = "returned" => saves[i].ref # None

\* C21 for what the code does: create returns the components of the model
\* the resolver produced and has sent the dirty state for it; open returns
\* the components it was given; a save that returns had a reference.
C21_CreateDelegatesOpenEchoes ==
    /\ tryLast.phase = "returned" /\ tryLast.op = "create"
            => /\ tryLast.resolved # None
               /\ tryLast.returned = ToComponents(tryLast.resolved)
               /\ tryLast.dirty = ToComponents(tryLast.resolved)
    /\ tryLast.op = "open"
            => /\ tryLast.phase = "returned"
               /\ tryLast.returned = tryLast.arg
               /\ tryLast.resolved = None
    /\ \A i \in SaveIds : saves[i].phase = "returned" => saves[i].ref # None

\* C17 for the path on which the save succeeds: the reference is disposed
\* when the call returns, and a call that obtained none disposes none.
C17_RefDisposedWhenSaveSucceeds ==
    \A i \in SaveIds :
        /\ saves[i].phase = "returned" => saves[i].ref = "disposed"
        /\ saves[i].phase = "resolving" => saves[i].ref = None

\* C8: the $acceptModelChanged call for a batch carries the notebook's
\* current metadata if and only if some event of the batch has kind
\* ChangeDocumentMetadata; otherwise its metadata argument is undefined.
C8_MetadataIffDocumentMetadataChange ==
    \A c \in 1..Len(modelChanged) :
        IF \E i \in 1..Len(lastEvents) : lastEvents[i].kind = "ChangeDocumentMetadata"
        THEN modelChanged[c].metadata = lastMetadata
        ELSE modelChanged[c].metadata = Undefined

\* a mixed batch whose second event is the document-metadata change
C8_Witness ==
    /\ Len(modelChanged) >= 1
    /\ Len(lastEvents) = 2
    /\ lastEvents[1].kind = "Output"
    /\ lastEvents[2].kind = "ChangeDocumentMetadata"
    /\ modelChanged[1].metadata = "m1"

\* C9: rawEvents holds exactly one entry per event of the batch, in the order
\* of the batch, with the kind (and payload) of the event at each position.
C9_RawEventsOnePerEventInOrder ==
    \A c \in 1..Len(modelChanged) :
        LET raw == modelChanged[c].eventDto.rawEvents IN
        /\ Len(raw) = Len(lastEvents)
        /\ \A i \in 1..Len(lastEvents) :
                /\ raw[i].kind = lastEvents[i].kind
                /\ raw[i].wire = lastEvents[i].payload

\* a batch of two events of different kinds was forwarded
C9_Witness ==
    /\ Len(modelChanged) >= 1
    /\ Len(lastEvents) = 2
    /\ lastEvents[1].kind = "OutputItem"
    /\ lastEvents[2].kind = "Move"
    /\ Len(modelChanged[1].eventDto.rawEvents) = 2

----------------------------------------------------------------------------
(* WorkspaceMainImpl: canonical-URI providers *)

\* canonicalUriService.registerCanonicalUriProvider(scheme, provider): a
\* scheme that has a provider is rejected, otherwise the registration is
\* recorded and its disposable returned
ServiceHasProvider(scheme) == canonicalService[scheme] # 0

\* $registerCanonicalUriProvider that stores a disposable whatever the
\* service answers
RegisterCanonicalUriProviderUnguarded(scheme) ==
    /\ Len(canonRegs) < MaxRegistrations
    /\ canonRegs' = Append(canonRegs, scheme)
    /\ canonDisposals' = Append(canonDisposals, 0)
    /\ canonicalUriProviders' =
            [canonicalUriProviders EXCEPT ![scheme] = Len(canonRegs) + 1]
    /\ canonicalService' = IF ServiceHasProvider(scheme) THEN canonicalService
                           ELSE [canonicalService EXCEPT ![scheme] = Len(canonRegs) + 1]
    /\ canonLast' = [op |-> "register", scheme |-> scheme,
                     before |-> canonicalUriProviders[scheme], result |-> "ok"]

\* $registerCanonicalUriProvider(scheme): the argument of Map.set is the
\* disposable the service returns; when the service throws, set is not reached
RegisterCanonicalUriProvider(scheme) ==
    /\ Len(canonRegs) < MaxRegistrations
    /\ IF ServiceHasProvider(scheme)
       THEN /\ canonLast' = [op |-> "register", scheme |-> scheme,
                             before |-> canonicalUriProviders[scheme],
                             result |-> "rejected"]
            /\ UNCHANGED <<canonicalUriProviders, canonicalService, canonRegs,
                           canonDisposals>>
       ELSE /\ canonRegs' = Append(canonRegs, scheme)
            /\ canonDisposals' = Append(canonDisposals, 0)
            /\ canonicalService' = [canonicalService EXCEPT ![scheme] = Len(canonRegs) + 1]
            /\ canonicalUriProviders' =
                    [canonicalUriProviders EXCEPT ![scheme] = Len(canonRegs) + 1]
            /\ canonLast' = [op |-> "register", scheme |-> scheme,
                             before |-> canonicalUriProviders[scheme], result |-> "ok"]

\* disposable.dispose() of a registration: the service drops the provider
\* it holds for that registration
DisposeRegistration(reg) ==
    /\ canonDisposals' = [canonDisposals EXCEPT ![reg] = @ + 1]
    /\ canonicalService' = [s \in Schemes |->
                                IF canonicalService[s] = reg THEN 0 ELSE canonicalService[s]]

\* $unregisterCanonicalUriProvider that disposes without deleting the entry
UnregisterCanonicalUriProviderKeepEntry(scheme) ==
    LET disposable == canonicalUriProviders[scheme] IN
    /\ IF disposable # 0
       THEN /\ DisposeRegistration(disposable)
            /\ canonLast' = [op |-> "unregister", scheme |-> scheme,
                             before |-> disposable, result |-> "ok"]
       ELSE /\ canonLast' = [op |-> "unregister", scheme |-> scheme,
                             before |-> 0, result |-> "warned"]
            /\ UNCHANGED <<canonicalService, canonDisposals>>
    /\ UNCHANGED <<canonicalUriProviders, canonRegs>>

\* $unregisterCanonicalUriProvider(scheme)
UnregisterCanonicalUriProvider(scheme) ==
    LET disposable == canonicalUriProviders[scheme] IN
    /\ IF disposable # 0
       THEN /\ canonicalUriProviders' = [canonicalUriProviders EXCEPT ![scheme] = 0]
            /\ DisposeRegistration(disposable)
            /\ canonLast' = [op |-> "unregister", scheme |-> scheme,
                             before |-> disposable, result |-> "ok"]
       ELSE /\ canonLast' = [op |-> "unregister", scheme |-> scheme,
                             before |-> 0, result |-> "warned"]
            /\ UNCHANGED <<canonicalUriProviders, canonicalService, canonDisposals>>
    /\ UNCHANGED canonRegs

NextCanon ==
    \/ \E s \in Schemes : RegisterCanonicalUriProvider(s) /\ UNCHANGED exceptCanon
    \/ \E s \in Schemes : UnregisterCanonicalUriProvider(s) /\ UNCHANGED exceptCanon

SpecCanon == Init /\ [][NextCanon]_vars

\* C18: a $registerCanonicalUriProvider for a scheme that has a registration
\* through the bridge is rejected and leaves the first disposable in the map;
\* the map holds, for each scheme, the undisposed disposable of its one live
\* registration, or nothing.
C18_DuplicateCanonicalRegistrationGuarded ==
    /\ (canonLast.op = "register" /\ canonLast.before # 0)
            => /\ canonLast.result = "rejected"
               /\ canonicalUriProviders[canonLast.scheme] = canonLast.before
    /\ \A s \in Schemes :
            /\ canonicalUriProviders[s] = canonicalService[s]
            /\ canonicalUriProviders[s] # 0 =>
                    /\ canonRegs[canonicalUriProviders[s]] = s
                    /\ canonDisposals[canonicalUriProviders[s]] = 0
    /\ \A reg \in 1..Len(canonRegs) :
            canonDisposals[reg] = 0 => canonicalUriProviders[canonRegs[reg]] = reg

\* a registration was rejected for a scheme that was registered, unregistered
\* and registered again
C18_Witness ==
    /\ canonLast.op = "register"
    /\ canonLast.result = "rejected"
    /\ canonLast.before = 2
    /\ canonRegs[1] = canonLast.scheme
    /\ canonDisposals[1] = 1

\* C19: $unregisterCanonicalUriProvider for a scheme without a registration
\* only warns: it changes no state and disposes nothing; for a registered
\* scheme it removes the entry and disposes that registration, and no
\* registration is ever disposed twice.
C19_UnregisterCanonicalOnceOrNoOp ==
    /\ [](canonLast.op = "unregister" =>
            /\ canonicalUriProviders[canonLast.scheme] = 0
            /\ canonLast.before = 0 <=> canonLast.result = "warned"
            /\ canonLast.before # 0 => canonDisposals[canonLast.before] = 1)
    /\ [](\A reg \in 1..Len(canonRegs) : canonDisposals[reg] <= 1)
    /\ [][\A s \in Schemes :
            (UnregisterCanonicalUriProvider(s) /\ canonicalUriProviders[s] = 0)
                => UNCHANGED <<canonicalUriProviders, canonicalService, canonRegs,
                               canonDisposals>>]_vars

\* a second unregister of a scheme whose registration the first one disposed,
\* while the other scheme stays registered
C19_Witness ==
    /\ canonLast.op = "unregister"
    /\ canonLast.result = "warned"
    /\ \E reg \in 1..Len(canonRegs) :
            /\ canonRegs[reg] = canonLast.scheme
            /\ canonDisposals[reg] = 1
    /\ \E s \in Schemes : canonicalUriProviders[s] # 0

----------------------------------------------------------------------------
(* NotebookCellResourceResolver / NotebookCellResource *)

\* the outcome of parsing something that is not a number
NaN == -1

\* the handle written by the digits before the "s" of a fragment
ParseHandle(digits) ==
    IF digits = <<"0">> THEN 0 ELSE IF digits = <<"1">> THEN 1 ELSE NaN

\* CellUri.parse(uri): undefined unless the uri has the cell scheme and its
\* fragment holds a handle before an "s"; otherwise the handle and the uri of
\* the notebook
CellUriParse(uri) ==
    LET f == uri.fragment
        idx == IF \E i \in 1..Len(f) : f[i] = "s"
               THEN CHOOSE i \in 1..Len(f) :
                        f[i] = "s" /\ \A j \in 1..(i - 1) : f[j] # "s"
               ELSE 0
        handle == IF idx = 0 THEN NaN ELSE ParseHandle(SubSeq(f, 1, idx - 1))
    IN IF uri.scheme # CellScheme \/ idx = 0 \/ handle = NaN
       THEN [defined |-> FALSE, notebook |-> uri.path, handle |-> 0]
       ELSE [defined |-> TRUE, notebook |-> uri.path, handle |-> handle]

\* find that takes the first cell of the notebook, whatever its handle
FindCellAny(model, handle) ==
    IF \E h \in Handles : model.cells[h] # None
    THEN CHOOSE h \in Handles : model.cells[h] # None /\
                               \A g \in Handles : model.cells[g] # None => h <= g
    ELSE NaN

\* notebookModel.cells.find(cell => cell.handle === handle)
FindCell(model, handle) ==
    IF handle \in Handles /\ model.cells[handle] # None THEN handle ELSE NaN

\* the notebook service opens a notebook with some cells
OpenNotebook(notebook, cells) ==
    /\ ~notebookModels[notebook].exists
    /\ notebookModels' = [notebookModels EXCEPT
                            ![notebook] = [exists |-> TRUE, cells |-> cells]]
    /\ cellLast' = [op |-> "open", uri |-> NoUri, obj |-> 0, result |-> None]
    /\ UNCHANGED cellResources

\* the source of a cell is edited
EditCell(notebook, handle, source) ==
    /\ notebookModels[notebook].exists
    /\ notebookModels[notebook].cells[handle] \notin {None, source}
    /\ notebookModels' = [notebookModels EXCEPT ![notebook].cells[handle] = source]
    /\ cellLast' = [op |-> "edit", uri |-> NoUri, obj |-> 0, result |-> None]
    /\ UNCHANGED cellResources

\* NotebookCellResourceResolver.resolve(uri)
ResolveCell(uri) ==
    LET parsedUri == CellUriParse(uri)
        notebookModel == notebookModels[parsedUri.notebook]
        notebookCellModel == FindCell(notebookModel, parsedUri.handle)
        Throw(error) == /\ cellLast' = [op |-> "resolve", uri |-> uri, obj |-> 0,
                                        result |-> error]
                        /\ UNCHANGED cellResources
    IN
    /\ IF uri.scheme # CellScheme THEN Throw("wrong scheme")
       ELSE IF ~parsedUri.defined THEN Throw("cant parse uri")
       ELSE IF ~notebookModel.exists THEN Throw("no notebook found")
       ELSE IF notebookCellModel = NaN THEN Throw("no cell found")
       ELSE /\ Len(cellResources) < MaxCellResources
            /\ cellResources' = Append(cellResources,
                                       [uri |-> uri, notebook |-> parsedUri.notebook,
                                        handle |-> notebookCellModel])
            /\ cellLast' = [op |-> "resolve", uri |-> uri,
                            obj |-> Len(cellResources) + 1, result |-> "ok"]
    /\ UNCHANGED notebookModels

\* NotebookCellResource.readContents(): Promise.resolve(this.cell.source)
ReadCellContents(o) ==
    /\ cellLast' = [op |-> "read", uri |-> cellResources[o].uri, obj |-> o,
                    result |-> notebookModels[cellResources[o].notebook]
                                    .cells[cellResources[o].handle]]
    /\ UNCHANGED <<notebookModels, cellResources>>

NextCell ==
    \/ \E n \in Notebooks, cells \in [Handles -> Contents \cup {None}] :
            OpenNotebook(n, cells) /\ UNCHANGED exceptCell
    \/ \E n \in Notebooks, h \in Handles, source \in Contents :
            EditCell(n, h, source) /\ UNCHANGED exceptCell
    \/ \E uri \in CellUris : ResolveCell(uri) /\ UNCHANGED exceptCell
    \/ \E o \in 1..Len(cellResources) : ReadCellContents(o) /\ UNCHANGED exceptCell

SpecCell == Init /\ [][NextCell]_vars

\* C20: resolve(uri) fails when the scheme is not the cell scheme, when the
\* uri cannot be parsed, when the notebook has no model, or when the notebook
\* has no cell with the parsed handle; otherwise it returns a resource of the
\* cell with that handle, and readContents returns the source the cell has
\* when it is read.
C20_ResolveCellOrFail ==
    LET u == cellLast.uri
        parsed == CellUriParse(u)
        fails == \/ u.scheme # CellScheme
                 \/ ~parsed.defined
                 \/ ~notebookModels[parsed.notebook].exists
                 \/ notebookModels[parsed.notebook].cells[parsed.handle] = None
    IN
    /\ cellLast.op = "resolve" =>
            /\ fails <=> cellLast.result # "ok"
            /\ cellLast.result = "ok" =>
                    /\ cellResources[cellLast.obj].uri = u
                    /\ cellResources[cellLast.obj].notebook = u.path
                    /\ cellResources[cellLast.obj].handle = parsed.handle
    /\ cellLast.op = "read" =>
            cellLast.result = notebookModels[cellResources[cellLast.obj].notebook]
                                    .cells[cellResources[cellLast.obj].handle]

\* the source of the second cell of a notebook with two cells was read after
\* it was edited
C20_Witness ==
    /\ cellLast.op = "read"
    /\ cellResources[cellLast.obj].handle = 1
    /\ cellLast.result = "a"
    /\ LET cells == notebookModels[cellResources[cellLast.obj].notebook].cells
       IN cells[0] = "" /\ cells[1] = "a"

----------------------------------------------------------------------------
(* Properties of the text-content resolver (SpecResolver) *)

\* C1: while a scheme is registered, a second registerContentProvider for it
\* fails with an error and the provider map still holds the provider of the
\* first registration (which resolve goes through).
C1_DuplicateRegistrationRejected ==
    /\ \A s \in Schemes : providers[s] = registered[s]
    /\ (lastOp.op = "register" /\ lastOp.before # None)
            => /\ lastOp.result = "already registered"
               /\ providers[lastOp.scheme] = lastOp.before
    /\ (lastOp.op = "register" /\ lastOp.before = None)
            => /\ lastOp.result = "ok"
               /\ providers[lastOp.scheme] # None

\* a registration was rejected for a scheme that p1 holds while the other
\* scheme is held by p2
C1_Witness ==
    /\ lastOp.op = "register"
    /\ lastOp.before = "p1"
    /\ lastOp.result = "already registered"
    /\ providers[lastOp.scheme] = "p1"
    /\ \E s \in Schemes : providers[s] = "p2"

\* C2: resolve(uri) succeeds if and only if uri.scheme is registered at that
\* moment; otherwise it fails with the 'unable to find provider' error.
C2_ResolveIffRegistered ==
    lastOp.op = "resolve" =>
        /\ lastOp.result = "ok" <=> lastOp.before # None
        /\ lastOp.result # "ok" => lastOp.result = "unable to find provider"
        /\ lastOp.result = "ok" =>
                /\ lastOp.obj \in ObjIds
                /\ resources[UriToString(objs[lastOp.obj].uri)] = lastOp.obj
                /\ objs[lastOp.obj].uri.scheme = lastOp.scheme

\* a resolve that fails for a scheme that was registered and unregistered: a
\* resource of that scheme is still open
C2_Witness ==
    /\ lastOp.op = "resolve"
    /\ lastOp.result = "unable to find provider"
    /\ \E k \in UriStrings :
            /\ resources[k] # 0
            /\ objs[resources[k]].uri.scheme = lastOp.scheme

\* C3: unregisterContentProvider for a scheme that is not registered is
\* reported as an error and changes neither the provider map nor the
\* open-resources map.
C3_UnregisterAbsentIsError ==
    [][(lastOp'.op = "unregister" /\ registered[lastOp'.scheme] = None)
            => /\ lastOp'.result = "not registered"
               /\ UNCHANGED <<providers, resources, objs>>]_vars

\* an unregister of an absent scheme while a resource of that scheme is open
\* and the other scheme is registered
C3_Witness ==
    /\ lastOp.op = "unregister"
    /\ lastOp.result = "not registered"
    /\ \E s \in Schemes : providers[s] # None
    /\ \E k \in UriStrings :
            /\ resources[k] # 0
            /\ objs[resources[k]].uri.scheme = lastOp.scheme

\* C4: the first readContents after setContent(c) returns exactly c, without
\* a remote fetch, and leaves the cache empty, for every content c including
\* the empty string.
C4_FirstReadReturnsSetContent ==
    (lastOp.op = "read" /\ lastOp.before # None)
        => /\ lastOp.result = lastOp.before
           /\ objs[lastOp.obj].cache = Undefined

\* C4 for the contents the code does serve from the cache: a non-empty
\* content is returned without a fetch and the cache is cleared, and a read
\* with nothing set since the last read goes to the remote side.
C4_NonEmptyContentReadOnce ==
    /\ (lastOp.op = "read" /\ lastOp.before \notin {None, ""})
            => /\ lastOp.result = lastOp.before
               /\ objs[lastOp.obj].cache = Undefined
    /\ (lastOp.op = "read" /\ lastOp.before = None) => lastOp.result = "remote"

----------------------------------------------------------------------------
(* NotebookRenderersMainImpl *)

\* the $postRendererMessage calls among the messages relayed
Forwarded(log) == SelectSeq(log, LAMBDA e : e.to = "plugin")

\* the listener init() gives to rendererMessagingService.onPostMessage: the
\* event goes to the plugin. The disposable onPostMessage returns is dropped,
\* so the listener does not depend on `disposables`.
OnPostMessage(editorId, rendererId, message) ==
    /\ Len(rendererLog) < MaxMessages
    /\ rendererLog' = Append(rendererLog,
            [to |-> "plugin", editorId |-> editorId, rendererId |-> rendererId,
             message |-> message])
    /\ UNCHANGED rendererDisposed

\* $postMessage(editorId, rendererId, message): handed to receiveMessage of
\* the renderer messaging service
PostMessage(editorId, rendererId, message) ==
    /\ Len(rendererLog) < MaxMessages
    /\ rendererLog' = Append(rendererLog,
            [to |-> "service", editorId |-> editorId, rendererId |-> rendererId,
             message |-> message])
    /\ UNCHANGED rendererDisposed

\* dispose(): disposes the collection `disposables`, to which nothing was
\* pushed
NotebookRenderersDispose ==
    /\ rendererDisposed' = TRUE
    /\ UNCHANGED rendererLog

NextRenderers ==
    \/ \E e \in EditorIds, r \in RendererIds, m \in Messages :
            OnPostMessage(e, r, m) /\ UNCHANGED exceptRenderer
    \/ \E e \in EditorIds, r \in RendererIds, m \in Messages :
            PostMessage(e, r, m) /\ UNCHANGED exceptRenderer
    \/ NotebookRenderersDispose /\ UNCHANGED exceptRenderer

SpecRenderers == Init /\ [][NextRenderers]_vars

\* C23: after NotebookRenderersMainImpl.dispose() no renderer message posted
\* by the renderer messaging service is forwarded to the plugin through
\* $postRendererMessage any more.
C23_NoForwardingAfterDispose ==
    [][rendererDisposed => Forwarded(rendererLog') = Forwarded(rendererLog)]_vars

\* C23 for what the bridge does do: every message relayed is appended as it
\* was given, and dispose() forwards nothing itself.
C23_MessagesRelayedInOrder ==
    [][/\ rendererLog' # rendererLog =>
            /\ Len(rendererLog') = Len(rendererLog) + 1
            /\ SubSeq(rendererLog', 1, Len(rendererLog)) = rendererLog
       /\ rendererDisposed' # rendererDisposed => rendererLog' = rendererLog
       /\ rendererDisposed => rendererDisposed']_vars

----------------------------------------------------------------------------
(* WorkspaceMainImpl: text document content providers and toDispose *)

TheProxy == "p1"    \* the one ext-side proxy WorkspaceMainImpl registers

\* DisposableCollection.dispose of toDispose: every disposable pushed is
\* disposed, the last pushed first, and an error of one does not stop the
\* others. The result is the provider map left and the number of
\* unregisterContentProvider calls made for a scheme not registered then.
RECURSIVE DisposeCollection(_, _, _)
DisposeCollection(pushed, provs, stale) ==
    IF pushed = <<>>
    THEN [providers |-> provs, stale |-> stale]
    ELSE LET scheme == pushed[Len(pushed)] IN
         DisposeCollection(SubSeq(pushed, 1, Len(pushed) - 1),
                           [provs EXCEPT ![scheme] = None],
                           IF provs[scheme] = None THEN stale + 1 ELSE stale)

\* $registerTextDocumentContentProvider(scheme): the registration, and when
\* it did not throw, a disposable that unregisters the scheme is pushed
RegisterTextDocumentContentProvider(scheme) ==
    /\ ~wsDisposed
    /\ Len(toDispose) < MaxPushed
    /\ RegisterContentProvider(scheme, TheProxy)
    /\ toDispose' = IF providers[scheme] = None
                    THEN Append(toDispose, scheme) ELSE toDispose
    /\ UNCHANGED <<wsDisposed, staleUnregisters>>

\* $unregisterTextDocumentContentProvider(scheme): toDispose keeps the
\* disposable of the registration
UnregisterTextDocumentContentProvider(scheme) ==
    /\ ~wsDisposed
    /\ UnregisterContentProvider(scheme)
    /\ UNCHANGED <<toDispose, wsDisposed, staleUnregisters>>

\* WorkspaceMainImpl.dispose(): toDispose.dispose()
WorkspaceDispose ==
    LET done == DisposeCollection(toDispose, providers, 0) IN
    /\ ~wsDisposed
    /\ wsDisposed' = TRUE
    /\ providers' = done.providers
    /\ registered' = done.providers
    /\ staleUnregisters' = done.stale
    /\ toDispose' = <<>>
    /\ lastOp' = Did("disposeAll", None, 0, None,
                     IF done.stale = 0 THEN "ok" ELSE "not registered")
    /\ UNCHANGED <<resources, objs, fetches, unread>>

NextProviders ==
    \/ \E s \in Schemes :
            RegisterTextDocumentContentProvider(s) /\ UNCHANGED exceptProviders
    \/ \E s \in Schemes :
            UnregisterTextDocumentContentProvider(s) /\ UNCHANGED exceptProviders
    \/ WorkspaceDispose /\ UNCHANGED exceptProviders

SpecProviders == Init /\ [][NextProviders]_vars

\* C24: after any sequence of $registerTextDocumentContentProvider and
\* $unregisterTextDocumentContentProvider and a final dispose(), no scheme is
\* registered, and dispose() called unregisterContentProvider for no scheme
\* that was not registered at that moment.
C24_DisposeUnregistersOnlyRegistered ==
    wsDisposed => /\ \A s \in Schemes : providers[s] = None
                  /\ staleUnregisters = 0

\* C24 for the part dispose() does keep: no scheme stays registered, and
\* before dispose() every registered scheme has a disposable in toDispose.
C24_DisposeLeavesNoSchemeRegistered ==
    /\ wsDisposed => \A s \in Schemes : providers[s] = None
    /\ ~wsDisposed => \A s \in Schemes :
            providers[s] # None => \E i \in 1..Len(toDispose) : toDispose[i] = s

----------------------------------------------------------------------------
(* Further properties of the workspace roots (SpecRoots) and of the search
   (SpecSearch) *)

\* C25: when root changes were processed while storage round trips were
\* pending, then once every round trip has completed the last
\* $updatePluginsWorkspaceData carries the data fetched for the most recent
\* root list, in whatever order the responses came; and the
\* $onWorkspaceFoldersChanged notifications are in the order of the changes.
C25_LastUpdateIsForLatestRoots ==
    /\ (storageFetches = <<>> /\ workspaceData # <<>>) =>
            workspaceData[Len(workspaceData)] = roots.list
    /\ foldersChanged # <<>> => foldersChanged[Len(foldersChanged)] = roots.list

\* C25 for the notifications, which are sent before the round trip starts:
\* each is appended when its change is processed, so they are in the order of
\* the changes and the last one is the stored root list; every update
\* carries the data of one of the root lists notified.
C25_NotificationsInChangeOrder ==
    /\ foldersChanged # <<>> => foldersChanged[Len(foldersChanged)] = roots.list
    /\ Len(workspaceData) + Len(storageFetches) = Len(foldersChanged)
    /\ \A i \in 1..Len(workspaceData) :
            \E j \in 1..Len(foldersChanged) : workspaceData[i] = foldersChanged[j]

\* C27: the truncation loop of the onResult callback terminates for every
\* options.maxResults and every result batch.
C27_TruncationLoopTerminates == searchPhase # "hung"

\* C27 for the caps the loop can reach: the loop ends whenever the cap is not
\* negative.
C27_LoopTerminatesForNonNegativeCap == searchPhase = "hung" => maxHits < 0

----------------------------------------------------------------------------
(* The content calls on the resources of one plugin (SpecContent): the
   resolver with the registrations WorkspaceMainImpl makes, every call
   recorded with the resource or uri string it was made on *)

ContentOp(op, obj, key, pending) ==
    [op |-> op, obj |-> obj, key |-> key, pending |-> pending]

NextContent ==
    \/ \E s \in Schemes :
            /\ RegisterContentProvider(s, TheProxy)
            /\ contentLast' = ContentOp("register", 0, None, None)
            /\ UNCHANGED exceptContent
    \/ \E s \in Schemes :
            /\ UnregisterContentProvider(s)
            /\ contentLast' = ContentOp("unregister", 0, None, None)
            /\ UNCHANGED exceptContent
    \/ \E u \in Uris :
            /\ Resolve(u)
            /\ contentLast' = ContentOp("resolve", 0, UriToString(u), None)
            /\ UNCHANGED exceptContent
    \/ \E o \in ObjIds :
            /\ ReadContents(o)
            /\ contentLast' = ContentOp("read", o, None, unread[o])
            /\ UNCHANGED exceptContent
    \/ \E o \in ObjIds, c \in Contents \cup {Undefined} :
            /\ ProvideTextDocumentContentDone(o, c)
            /\ contentLast' = ContentOp("fetched", o, None, unread[o])
            /\ UNCHANGED exceptContent
    \/ \E k \in UriStrings, c \in Contents :
            /\ OnContentChange(k, c)
            /\ contentLast' = ContentOp("setContent", resources[k], k, c)
            /\ UNCHANGED exceptContent
    \/ \E o \in ObjIds :
            /\ Dispose(o)
            /\ contentLast' = ContentOp("dispose", o, None, None)
            /\ UNCHANGED exceptContent

SpecContent == Init /\ [][NextContent]_vars

\* C22: the resolver keeps at most one resource per URI string: disposing a
\* resource removes exactly its own entry from the resources map (never the
\* entry of another resource), a resolve of a URI whose entry is present
\* returns that resource, and a resolve of a URI without entry creates a
\* fresh resource with an empty cache.
C22_DisposeRemovesOnlyOwnEntry ==
    [][/\ contentLast'.op = "dispose" =>
            \A k \in UriStrings :
                resources'[k] # resources[k] => resources[k] = contentLast'.obj
       /\ (contentLast'.op = "resolve" /\ lastOp'.result = "ok") =>
            LET o == lastOp'.obj
                key == contentLast'.key
            IN  IF resources[key] # 0
                THEN o = resources[key] /\ objs' = objs
                ELSE o = Len(objs) + 1 /\ objs'[o].cache = Undefined]_vars

\* C22 for the handle the map still holds: disposing the resource that is the
\* entry of its URI removes that entry and no other, and every resolve
\* returns the entry of the URI or, without one, a new resource with an
\* empty cache that becomes the entry.
C22_ResolveReusesOpenEntry ==
    [][/\ (contentLast'.op = "dispose"
                /\ resources[UriToString(objs[contentLast'.obj].uri)]
                        = contentLast'.obj) =>
            resources' = [resources EXCEPT
                            ![UriToString(objs[contentLast'.obj].uri)] = 0]
       /\ (contentLast'.op = "resolve" /\ lastOp'.result = "ok") =>
            LET o == lastOp'.obj
                key == contentLast'.key
            IN  /\ resources'[key] = o
                /\ UriToString(objs'[o].uri) = key
                /\ IF resources[key] # 0
                   THEN o = resources[key] /\ objs' = objs
                   ELSE o = Len(objs) + 1 /\ objs'[o].cache = Undefined]_vars

\* C26: a setContent(c) that arrives while a read of the resource is
\* suspended on the remote fetch is not lost: the pending read returns the
\* fetched value, the cache still holds c afterwards, and the next
\* readContents returns c without a remote fetch, for every content c; a
\* setContent replaces whatever the cache held.
C26_SetContentDuringFetchNotLost ==
    [][/\ (contentLast'.op = "fetched" /\ contentLast'.pending # None) =>
            /\ objs'[contentLast'.obj].cache = contentLast'.pending
            /\ lastOp'.result \in Contents
       /\ (contentLast'.op = "read" /\ contentLast.op = "fetched"
                /\ contentLast.obj = contentLast'.obj
                /\ contentLast.pending # None) =>
            /\ lastOp'.result = contentLast.pending
            /\ fetches' = fetches
       /\ (contentLast'.op = "setContent" /\ contentLast'.obj # 0) =>
            objs'[contentLast'.obj].cache = contentLast'.pending]_vars

\* C26 for the contents the cache test accepts: a non-empty content set
\* during the suspension survives the completion of the fetch and is what
\* the next read returns, without a fetch.
C26_NonEmptySetContentDuringFetchKept ==
    [][/\ (contentLast'.op = "fetched" /\ contentLast'.pending # None) =>
            /\ objs'[contentLast'.obj].cache = contentLast'.pending
            /\ lastOp'.result \in Contents
       /\ (contentLast'.op = "read" /\ contentLast.op = "fetched"
                /\ contentLast.obj = contentLast'.obj
                /\ contentLast.pending \notin {None, ""}) =>
            /\ lastOp'.result = contentLast.pending
            /\ fetches' = fetches
            /\ objs'[contentLast'.obj].cache = Undefined
       /\ (contentLast'.op = "setContent" /\ contentLast'.obj # 0) =>
            objs'[contentLast'.obj].cache = contentLast'.pending]_vars

\* C28: onContentChange for a URI without open resource changes no state and
\* fires no event; for a URI with an open resource it sets the cache of that
\* resource, fires one change notification on it and touches no other
\* resource, whether or not the scheme of the resource is still registered.
C28_ContentChangeReachesOnlyOpenResource ==
    [][contentLast'.op = "setContent" =>
        IF resources[contentLast'.key] = 0
        THEN /\ lastOp'.result = "dropped"
             /\ UNCHANGED <<providers, resources, objs, fetches>>
        ELSE LET o == resources[contentLast'.key] IN
             /\ lastOp'.result = "fired"
             /\ objs' = [objs EXCEPT ![o].cache = contentLast'.pending]
             /\ UNCHANGED <<providers, resources, fetches>>]_vars

\* a content change reached an open resource whose scheme is not registered
\* any more, while the other open resource kept an empty cache
C28_Witness ==
    /\ contentLast.op = "setContent"
    /\ lastOp.result = "fired"
    /\ contentLast.obj # 0
    /\ resources[contentLast.key] = contentLast.obj
    /\ providers[objs[contentLast.obj].uri.scheme] = None
    /\ objs[contentLast.obj].cache = "a"
    /\ \E k \in UriStrings :
            /\ resources[k] \notin {0, contentLast.obj}
            /\ objs[resources[k]].cache = Undefined


====
